---- MODULE Spec2Model ----
(***************************************************************************)
(* The asynchronous task pipeline of tds-project1: the intake endpoint     *)
(* (api/routes.py), the queue and its single worker (core/worker.py), the  *)
(* attachment resolver (services/file_utils.py), the content generator     *)
(* (services/html_generator.py), the publish step with its liveness poll   *)
(* (services/github_service.py) and the backoff notifier                   *)
(* (services/notifier.py).                                                 *)
(***************************************************************************)
EXTENDS Integers, Sequences, FiniteSets, TLC

(* ------------------------------ bounds -------------------------------- *)

\* number of calls of receive_task in one behaviour
MaxRequests == 2

(* ------------------------- program constants -------------------------- *)

\* post_with_backoff(url, payload, client, max_attempts=20)
MaxAttempts == 20
\* delay = 1
InitialDelay == 1
\* delay = min(delay * 2, 16)
DelayCap == 16
\* await asyncio.sleep(10)  (initial settle delay)
SettleDelay == 10
\* for attempt in range(12)
PollAttempts == 12
\* await asyncio.sleep(10)  (between polls)
PollInterval == 10

\* core/config.py: values read from the process environment
STUDENT_SECRET == "s3cret"
GITHUB_OWNER == "octo"

(* ------------------------- Python values ------------------------------ *)

\* None where a tuple-shaped value (commit sha, pages url) is expected
None == <<"None">>
\* str(None), as an f-string renders it
NoneStr == "None"

\* Optional[str]: brief is None or a string
NoBrief == [none |-> TRUE, text |-> ""]
Brief(s) == [none |-> FALSE, text |-> s]

\* a Python object as the publish step may return it
PyNone == [type |-> "NoneType", truthy |-> FALSE, items |-> <<>>]
PyBool(b) == [type |-> "bool", truthy |-> b, items |-> <<>>]
PyStr(chars) == [type |-> "str", truthy |-> Len(chars) > 0, items |-> chars]
PyTuple(xs) == [type |-> "tuple", truthy |-> Len(xs) > 0, items |-> xs]

\* the exception classes the pipeline can raise; all derive from Exception
ExceptionClasses ==
  {"binascii.Error", "OSError", "TypeError", "AttributeError", "ValueError",
   "GitCommandError", "ConnectError"}

\* `except Exception` catches every subclass of Exception
IsException_mut(e) == e = "ValueError"
IsException(e) == e \in ExceptionClasses

(* --------------------------- requests --------------------------------- *)

\* an attachment URL: a data URI (mime, base64 payload) or a remote URL
DataUrl(mime, data) == [scheme |-> "data", mime |-> mime, data |-> data]
HttpUrl == [scheme |-> "http", mime |-> "", data |-> ""]

\* TaskRequest bodies a client may send (core/models.py); task is a string
\* given by its characters
Requests ==
  { [email |-> "a@x", secret |-> STUDENT_SECRET, task |-> <<"A", " ">>,
     round |-> 1, nonce |-> "n1", brief |-> Brief("site"),
     evaluation_url |-> "http://eval/1", attachments |-> <<>>],
    [email |-> "b@x", secret |-> STUDENT_SECRET, task |-> <<"A", " ">>,
     round |-> 2, nonce |-> "n2", brief |-> Brief("more"),
     evaluation_url |-> "http://eval/2",
     attachments |-> << [name |-> "r.png", url |-> HttpUrl],
                        [name |-> "d.png",
                         url |-> DataUrl("image/png", "valid")] >>],
    [email |-> "c@x", secret |-> STUDENT_SECRET, task |-> <<"b">>,
     round |-> 2, nonce |-> "n3", brief |-> NoBrief,
     evaluation_url |-> "http://eval/3",
     attachments |-> << [name |-> "m.png", url |-> DataUrl("", "valid")] >>],
    [email |-> "d@x", secret |-> STUDENT_SECRET, task |-> <<"b">>,
     round |-> 1, nonce |-> "n4", brief |-> NoBrief,
     evaluation_url |-> "http://eval/4",
     attachments |-> << [name |-> "p.png",
                         url |-> DataUrl("image/png", "badpad")],
                        [name |-> "q.png",
                         url |-> DataUrl("image/png", "valid")] >>],
    [email |-> "e@x", secret |-> "wrong", task |-> <<"b">>,
     round |-> 1, nonce |-> "n5", brief |-> NoBrief,
     evaluation_url |-> "http://eval/5", attachments |-> <<>>] }

\* str.lower() on one character
Lower(c) == CASE c = "A" -> "a" [] c = "B" -> "b" [] OTHER -> c

\* (variant: the name is not lower-cased)
RepoName_mut(task) ==
  [k \in 1..Len(task) |-> IF task[k] = " " THEN "-" ELSE task[k]]

\* repo_name = f"{task_id}".replace(" ", "-").lower()
RepoName(task) ==
  [k \in 1..Len(task) |-> Lower(IF task[k] = " " THEN "-" ELSE task[k])]

RepoNames == {RepoName(r.task) : r \in Requests}

(* ------------------------ working folder, git ------------------------- *)

NoReadme == [kind |-> "absent", fallback |-> FALSE, round |-> 0]
EmptyReadme == [kind |-> "empty", fallback |-> FALSE, round |-> 0]
TemplateReadme == [kind |-> "template", fallback |-> FALSE, round |-> 0]
SiteReadme(fb, r) == [kind |-> "site", fallback |-> fb, round |-> r]

EmptyFolder == [html |-> "absent", readme |-> NoReadme, license |-> FALSE]
NoGit == [commits |-> 0, tree |-> EmptyFolder, pushed |-> 0]

Min(a, b) == IF a < b THEN a ELSE b

VARIABLES
  intake,       \* the calls of receive_task so far: request and HTTP status
  pending,      \* accepted requests whose background queue.put has not run
  queue,        \* the asyncio.Queue: ids in FIFO order
  enqLog,       \* ids in the order queue.put ran
  startLog,     \* ids in the order process_task was started
  resolvedLog,  \* <<id, outcome, repository>> in the order the runs ended
  pc,           \* position of the worker
  cur,          \* id of the request in processing (0: none)
  repo_name,    \* process_task: the repository and folder name of this run
  calls,        \* how often this run called each stage of the pipeline
  idx,          \* decode_attachments: index of the next attachment
  files,        \* decode_attachments: names resolved so far
  fallback_img, \* process_task: files[0] or ""
  stage,        \* the pipeline stage process_task has reached in this run
  exc,          \* exception raised in this run ("none": none)
  folder,       \* working folders, by repository name
  git,          \* local git repository of each folder, and what was pushed
  remote,       \* repositories that exist on GitHub
  repo_exists,  \* create_and_push_repo: repo_check.status_code == 200 (a local)
  result,       \* what the publish step returned
  payload,      \* the ResultPayload built by process_task
  polls,        \* liveness poller: GETs made (a local of the publish step)
  pollSlept,    \* liveness poller: time slept (a local of the publish step)
  pollLive,     \* liveness poller: a 200 was seen in this run
  posts,        \* notifier: POSTs made in this run
  sleeps,       \* notifier: the delays slept, in order
  delay,        \* notifier: the current delay
  lastResp,     \* notifier: whether the last POST was answered 200
  lastPost,     \* notifier: URL and JSON body of the last POST
  acked         \* notifier: returned on a 200

intakeVars == <<intake, pending>>
queueVars == <<queue, enqLog>>
logVars == <<startLog, resolvedLog>>
attVars == <<idx, files, fallback_img>>
diskVars == <<folder, git, remote>>
pubVars == <<repo_exists, result>>
pollVars == <<polls, pollSlept, pollLive>>
notifyVars == <<posts, sleeps, delay, lastResp, lastPost, acked>>
runVars == <<repo_name, calls>>
excVars == <<stage, exc>>

vars == <<intake, pending, queue, enqLog, startLog, resolvedLog, pc, cur,
          repo_name, calls, lastPost, idx,
          files, fallback_img, stage, exc, folder, git, remote,
          repo_exists, result, payload, polls, pollSlept, pollLive, posts,
          sleeps, delay, lastResp, acked>>

NoPayload == [email |-> "", task |-> <<>>, round |-> 0, nonce |-> "",
              repo_url |-> <<>>, commit_sha |-> None, pages_url |-> None]

\* the request with identifier id, and the names process_task derives from it
Req(id) == intake[id].req
CurReq == Req(cur)
CurRepo == repo_name

NoCalls == [decode |-> 0, generate |-> 0, publish |-> 0]
NoPost == [url |-> "", body |-> NoPayload]

Init ==
  /\ intake = <<>>
  /\ pending = {}
  /\ queue = <<>>
  /\ enqLog = <<>>
  /\ startLog = <<>>
  /\ resolvedLog = <<>>
  /\ pc = "get"
  /\ cur = 0
  /\ repo_name = <<>>
  /\ calls = NoCalls
  /\ lastPost = NoPost
  /\ idx = 1
  /\ files = <<>>
  /\ fallback_img = ""
  /\ stage = "none"
  /\ exc = "none"
  /\ folder = [r \in RepoNames |-> EmptyFolder]
  /\ git = [r \in RepoNames |-> NoGit]
  /\ remote = {}
  /\ repo_exists = FALSE
  /\ result = PyNone
  /\ payload = NoPayload
  /\ polls = 0
  /\ pollSlept = 0
  /\ pollLive = FALSE
  /\ posts = 0
  /\ sleeps = <<>>
  /\ delay = InitialDelay
  /\ lastResp = "none"
  /\ acked = FALSE

(* ------------------------------ intake -------------------------------- *)

\* POST /api/task: 403 on a wrong secret, else schedule queue.put as a
\* background task and answer "accepted"
receive_task(r) ==
  /\ Len(intake) < MaxRequests
  /\ IF r.secret # STUDENT_SECRET
       THEN /\ intake' = Append(intake, [req |-> r, status |-> 403])
            /\ pending' = pending
       ELSE /\ intake' = Append(intake, [req |-> r, status |-> 200])
            /\ pending' = pending \cup {Len(intake) + 1}
  /\ UNCHANGED <<queueVars, logVars, pc, cur, runVars, attVars, excVars,
                 diskVars, pubVars, payload, pollVars, notifyVars>>

\* (variant: a queue of capacity 1, whose put waits while it is full)
queue_put_mut(id) ==
  /\ id \in pending
  /\ Len(queue) < 1
  /\ pending' = pending \ {id}
  /\ queue' = Append(queue, id)
  /\ enqLog' = Append(enqLog, id)
  /\ UNCHANGED <<intake, logVars, pc, cur, runVars, attVars, excVars,
                 diskVars, pubVars, payload, pollVars, notifyVars>>

\* the background task: queue.put(req.dict()); the queue is unbounded
queue_put(id) ==
  /\ id \in pending
  /\ pending' = pending \ {id}
  /\ queue' = Append(queue, id)
  /\ enqLog' = Append(enqLog, id)
  /\ UNCHANGED <<intake, logVars, pc, cur, runVars, attVars, excVars,
                 diskVars, pubVars, payload, pollVars, notifyVars>>

(* ------------------------------ worker -------------------------------- *)

\* asyncio.Queue.get: the item returned and the queue left
QueueGet_mut(q) == <<q[Len(q)], SubSeq(q, 1, Len(q) - 1)>>
QueueGet(q) == <<Head(q), Tail(q)>>

\* worker_loop: req = await queue.get(); process_task starts (lines 30-36)
worker_get ==
  /\ pc = "get"
  /\ queue # <<>>
  /\ cur' = QueueGet(queue)[1]
  /\ queue' = QueueGet(queue)[2]
  /\ startLog' = Append(startLog, cur')
  /\ repo_name' = RepoName(Req(cur').task)
  /\ calls' = [NoCalls EXCEPT !.decode = 1]
  /\ pc' = "attach"
  /\ stage' = "attachments"
  /\ UNCHANGED <<intakeVars, enqLog, resolvedLog, attVars, exc,
                 diskVars, pubVars, payload, pollVars, notifyVars>>

\* an exception leaves the step that raised it and travels to the handler of
\* process_task
Raise(e) == exc' = e /\ pc' = "raised"

(* --------------------- decode_attachments ----------------------------- *)

\* DATA_URI_RE = ^data:(?P<mime>[^;]+);base64,(?P<data>.+)$
DataUriMatch(url) == url.scheme = "data" /\ url.mime # "" /\ url.data # ""

\* base64.b64decode raises binascii.Error on a payload with wrong padding
B64DecodeRaises(data) == data = "badpad"

\* what client.get(url) followed by raise_for_status and write_bytes can do
FetchOutcomes(url) ==
  IF url.scheme = "http"
    THEN {"ok", "status_404", "ConnectError", "write_OSError"}
    ELSE {"UnsupportedProtocol"}

CurAttachments == CurReq.attachments

\* one iteration of the loop on a data URI: decode and write, outside any try
decode_data_uri ==
  /\ pc = "attach"
  /\ idx <= Len(CurAttachments)
  /\ DataUriMatch(CurAttachments[idx].url)
  /\ \E write \in {"ok", "OSError"} :
       IF B64DecodeRaises(CurAttachments[idx].url.data)
         THEN Raise("binascii.Error") /\ UNCHANGED <<idx, files>>
         ELSE IF write = "OSError"
           THEN Raise("OSError") /\ UNCHANGED <<idx, files>>
           ELSE /\ files' = Append(files, CurAttachments[idx].name)
                /\ idx' = idx + 1
                /\ UNCHANGED <<pc, exc>>
  /\ UNCHANGED <<intakeVars, queueVars, logVars, cur, runVars, fallback_img, stage,
                 diskVars, pubVars, payload, pollVars, notifyVars>>

\* one iteration of the loop on any other URL: fetch inside try/except,
\* `continue` on any exception
fetch_attachment ==
  /\ pc = "attach"
  /\ idx <= Len(CurAttachments)
  /\ ~DataUriMatch(CurAttachments[idx].url)
  /\ \E out \in FetchOutcomes(CurAttachments[idx].url) :
       /\ files' = IF out = "ok" THEN Append(files, CurAttachments[idx].name)
                                 ELSE files
       /\ idx' = idx + 1
  /\ UNCHANGED <<intakeVars, queueVars, logVars, pc, cur, runVars, fallback_img,
                 excVars, diskVars, pubVars, payload, pollVars, notifyVars>>

\* fallback_img = files[0] if files else ""
FallbackImg(fs) == IF fs # <<>> THEN fs[1] ELSE ""

\* decode_attachments returns; process_task keeps the first name
attachments_done ==
  /\ pc = "attach"
  /\ idx > Len(CurAttachments)
  /\ fallback_img' = FallbackImg(files)
  /\ pc' = "generate"
  /\ stage' = "generation"
  /\ UNCHANGED <<intakeVars, queueVars, logVars, cur, runVars, idx, files, exc,
                 diskVars, pubVars, payload, pollVars, notifyVars>>

(* --------------------- generate_static_site --------------------------- *)

\* what the chat completion call can yield
AIOutputs == {"valid", "unclosed_script", "empty", "not_html", "api_error"}

\* '<script>' in html_content
HasJs(html) == html \in {"valid", "unclosed_script", "fallback"}
\* re.search(r'<script[^>]*>(.*?)</script>', html_content, re.DOTALL)
ScriptMatches(html) == html \in {"valid", "fallback"}

\* generate_readme: the exception it raises ("none": it returns readme)
generate_readme(brief, round_no, html, is_fallback) ==
  [raises |-> IF HasJs(html) /\ ~ScriptMatches(html) THEN "AttributeError"
              ELSE IF round_no # 1 /\ brief.none THEN "TypeError"
              ELSE "none",
   readme |-> SiteReadme(is_fallback, round_no)]

\* the exception the try block of generate_static_site ends with
TryBlockRaises(out, brief, round_no) ==
  CASE out = "api_error" -> "ConnectError"
    [] out = "empty" -> "ValueError"
    [] out = "not_html" -> "ValueError"
    [] OTHER -> generate_readme(brief, round_no, out, FALSE).raises

generate_static_site ==
  /\ pc = "generate"
  /\ \E out \in AIOutputs :
       LET brief == CurReq.brief
           round_no == CurReq.round
           tryExc == TryBlockRaises(out, brief, round_no)
           gen == generate_readme(brief, round_no, out, FALSE)
           fb == generate_readme(brief, round_no, "fallback", TRUE)
       IN IF tryExc = "none"
            THEN /\ folder' = [folder EXCEPT ![CurRepo].html = out,
                                             ![CurRepo].readme = gen.readme]
                 /\ pc' = "pub_check"
                 /\ stage' = "publish"
                 /\ exc' = exc
            ELSE IF fb.raises = "none"
              THEN /\ folder' = [folder EXCEPT ![CurRepo].html = "fallback",
                                               ![CurRepo].readme = fb.readme]
                   /\ pc' = "pub_check"
                   /\ stage' = "publish"
                   /\ exc' = exc
              ELSE /\ folder' = [folder EXCEPT ![CurRepo].html = "fallback"]
                   /\ Raise(fb.raises)
                   /\ stage' = stage
  /\ calls' = [calls EXCEPT !.generate = calls.generate + 1]
  /\ UNCHANGED <<intakeVars, queueVars, logVars, cur, repo_name, attVars, git,
                 remote, pubVars, payload, pollVars, notifyVars>>

(* --------------------- create_and_push_repo --------------------------- *)

\* the commit repo.head.commit names, and the site's address
Sha(repo, n) == <<"sha", repo, n>>
PagesUrl(repo) == <<"https", GITHUB_OWNER, "github.io", repo>>

\* GET /repos/{owner}/{repo}: statuses the API can answer, or a transport error
RepoCheckOutcomes(repo) ==
  (IF repo \in remote THEN {"200", "500"} ELSE {"404"}) \cup {"ConnectError"}

\* repo_check; repo_exists = repo_check.status_code == 200
pub_repo_check ==
  /\ pc = "pub_check"
  /\ \E out \in RepoCheckOutcomes(CurRepo) :
       IF out = "ConnectError"
         THEN Raise("ConnectError") /\ repo_exists' = repo_exists
         ELSE /\ repo_exists' = (out = "200")
              /\ pc' = IF out = "200" THEN "pub_git" ELSE "pub_create"
              /\ exc' = exc
  /\ calls' = [calls EXCEPT !.publish = calls.publish + 1]
  /\ UNCHANGED <<intakeVars, queueVars, logVars, cur, repo_name, attVars, stage,
                 diskVars, result, payload, pollVars, notifyVars>>

\* POST /user/repos: 201 created, 422 already there, anything else, or a
\* transport error
RepoCreateOutcomes(repo) ==
  (IF repo \in remote THEN {"422"} ELSE {"201"}) \cup {"403", "ConnectError"}

\* if not repo_exists: create it; on a status outside (201, 422) the code
\* evaluates `await r.text()`, a call of the str httpx gives for r.text
pub_create_repo ==
  /\ pc = "pub_create"
  /\ \E out \in RepoCreateOutcomes(CurRepo) :
       CASE out = "ConnectError" -> Raise("ConnectError") /\ remote' = remote
         [] out = "403" -> Raise("TypeError") /\ remote' = remote
         [] OTHER -> /\ remote' = remote \cup {CurRepo}
                     /\ pc' = "pub_git"
                     /\ exc' = exc
  /\ UNCHANGED <<intakeVars, queueVars, logVars, cur, runVars, attVars, stage, folder,
                 git, pubVars, payload, pollVars, notifyVars>>

\* git add --all; commit: a new head commit holding the folder as it is
Commit(g, tree) == [g EXCEPT !.commits = g.commits + 1, !.tree = tree]
\* git push: the remote main is the local head
Push(g) == [g EXCEPT !.pushed = g.commits]

\* Step 3: Repo.init, add, commit, branch -M main, set origin, push --force
pub_git_push ==
  /\ pc = "pub_git"
  /\ \E out \in {"ok", "GitCommandError"} :
       LET committed == Commit(git[CurRepo], folder[CurRepo])
       IN IF out = "ok"
            THEN /\ git' = [git EXCEPT ![CurRepo] = Push(committed)]
                 /\ pc' = "pub_license"
                 /\ exc' = exc
            ELSE /\ git' = [git EXCEPT ![CurRepo] = committed]
                 /\ Raise("GitCommandError")
  /\ UNCHANGED <<intakeVars, queueVars, logVars, cur, runVars, attVars, stage, folder,
                 remote, pubVars, payload, pollVars, notifyVars>>

\* Step 4: if LICENSE is missing: write it, add, commit, push
pub_license ==
  /\ pc = "pub_license"
  /\ IF folder[CurRepo].license
       THEN /\ pc' = "pub_readme"
            /\ UNCHANGED <<folder, git, exc>>
       ELSE /\ folder' = [folder EXCEPT ![CurRepo].license = TRUE]
            /\ \E out \in {"ok", "GitCommandError"} :
                 LET tree == [git[CurRepo].tree EXCEPT !.license = TRUE]
                     committed == Commit(git[CurRepo], tree)
                 IN IF out = "ok"
                      THEN /\ git' = [git EXCEPT ![CurRepo] = Push(committed)]
                           /\ pc' = "pub_readme"
                           /\ exc' = exc
                      ELSE /\ git' = [git EXCEPT ![CurRepo] = committed]
                           /\ Raise("GitCommandError")
  /\ UNCHANGED <<intakeVars, queueVars, logVars, cur, runVars, attVars, stage, remote,
                 pubVars, payload, pollVars, notifyVars>>

\* existing_readme = readme_path.read_text() if readme_path.exists() else "";
\* `not existing_readme`
ReadmeIsEmpty(readme) == readme.kind \in {"absent", "empty"}

\* client.responses.create(...): inside create_and_push_repo the name client
\* is the httpx.AsyncClient parameter, which has no attribute `responses`
ReadmeCallOutcomes == {"AttributeError"}

\* try / except / else of Step 5.5: readme_content as the three clauses leave it
ReadmeContent(out, existing) ==
  IF out \in {"AttributeError", "ValueError"}
    THEN IF ReadmeIsEmpty(existing) THEN TemplateReadme ELSE EmptyReadme
    ELSE IF ReadmeIsEmpty(existing) THEN EmptyReadme ELSE existing

\* Step 5.5: README.md is written (and not committed)
pub_readme ==
  /\ pc = "pub_readme"
  /\ \E out \in ReadmeCallOutcomes :
       folder' = [folder EXCEPT ![CurRepo].readme =
                    ReadmeContent(out, folder[CurRepo].readme)]
  /\ pc' = "pub_pages"
  /\ UNCHANGED <<intakeVars, queueVars, logVars, cur, runVars, attVars, excVars, git,
                 remote, pubVars, payload, pollVars, notifyVars>>

\* Step 6: POST .../pages; on a status outside (201, 204, 409) the code
\* evaluates `await resp.text()`; then the settle delay
pub_enable_pages ==
  /\ pc = "pub_pages"
  /\ \E out \in {"201", "409", "404", "ConnectError"} :
       CASE out = "ConnectError" -> Raise("ConnectError") /\ pollSlept' = pollSlept
         [] out = "404" -> Raise("TypeError") /\ pollSlept' = pollSlept
         [] OTHER -> /\ pollSlept' = pollSlept + SettleDelay
                     /\ pc' = "poll"
                     /\ exc' = exc
  /\ UNCHANGED <<intakeVars, queueVars, logVars, cur, runVars, attVars, stage, diskVars,
                 pubVars, payload, polls, pollLive, notifyVars>>

\* resp.status_code == 200
PageIsLive(out) == out = "200"

\* where the poll loop goes after a poll: break on a 200, else sleep and go on
\* until range(12) is used up
AfterPoll_mut(live, n) == IF n >= PollAttempts THEN "pub_scan" ELSE "poll"
AfterPoll(live, n) == IF live \/ n >= PollAttempts THEN "pub_scan" ELSE "poll"

\* Step 7: one iteration of the poll loop
\* (variant: the loop makes one more attempt than PollAttempts)
pages_poll_mut ==
  /\ pc = "poll"
  /\ polls <= PollAttempts
  /\ \E out \in {"200", "404", "ConnectError"} :
       /\ polls' = polls + 1
       /\ pollLive' = (pollLive \/ PageIsLive(out))
       /\ pollSlept' = IF PageIsLive(out) THEN pollSlept
                                          ELSE pollSlept + PollInterval
       /\ pc' = IF PageIsLive(out) \/ polls + 1 > PollAttempts
                THEN "pub_scan" ELSE "poll"
  /\ UNCHANGED <<intakeVars, queueVars, logVars, cur, runVars, attVars, excVars,
                 diskVars, pubVars, payload, notifyVars>>

pages_poll ==
  /\ pc = "poll"
  /\ polls < PollAttempts
  /\ \E out \in {"200", "404", "ConnectError"} :
       /\ polls' = polls + 1
       /\ pollLive' = (pollLive \/ PageIsLive(out))
       /\ pollSlept' = IF PageIsLive(out) THEN pollSlept
                                          ELSE pollSlept + PollInterval
       /\ pc' = AfterPoll(PageIsLive(out), polls + 1)
  /\ UNCHANGED <<intakeVars, queueVars, logVars, cur, runVars, attVars, excVars,
                 diskVars, pubVars, payload, notifyVars>>

\* what create_and_push_repo returns once the poll loop is over
PublishReturn_mut(repo, g, live) ==
  IF live THEN PyTuple(<<Sha(repo, g.commits), PagesUrl(repo)>>) ELSE PyNone
PublishReturn(repo, g, live) == PyTuple(<<Sha(repo, g.commits), PagesUrl(repo)>>)

\* Step 8 and the return: the secret scan (FileNotFoundError is caught),
\* sha = repo.head.commit.hexsha; return sha, pages_url
pub_scan_return ==
  /\ pc = "pub_scan"
  /\ \E scan \in {"completed", "FileNotFoundError"} :
       result' = PublishReturn(CurRepo, git[CurRepo], pollLive)
  /\ pc' = "unpack"
  /\ stage' = "result"
  /\ polls' = 0
  /\ pollSlept' = 0
  /\ repo_exists' = FALSE
  /\ UNCHANGED <<intakeVars, queueVars, logVars, cur, runVars, attVars, exc,
                 diskVars, payload, pollLive, notifyVars>>

\* the publish step seen from process_task alone (line 47): any Python value
\* comes back, or an exception is raised
StubOutcomes(repo) ==
  { [raises |-> "none", value |-> v] :
      v \in { PyNone, PyBool(FALSE), PyStr(<<>>), PyStr(<< <<"e">> >>),
              PyTuple(<<>>), PyTuple(<<Sha(repo, 1)>>),
              PyTuple(<<Sha(repo, 1), PagesUrl(repo)>>),
              PyTuple(<<Sha(repo, 1), PagesUrl(repo), <<"x">> >>) } }
  \cup { [raises |-> "GitCommandError", value |-> PyNone] }

publish_stub ==
  /\ pc = "pub_check"
  /\ \E out \in StubOutcomes(CurRepo) :
       IF out.raises # "none"
         THEN Raise(out.raises) /\ UNCHANGED <<result, stage>>
         ELSE /\ result' = out.value
              /\ pc' = "unpack"
              /\ stage' = "result"
              /\ exc' = exc
  /\ calls' = [calls EXCEPT !.publish = calls.publish + 1]
  /\ UNCHANGED <<intakeVars, queueVars, logVars, cur, repo_name, attVars,
                 diskVars, repo_exists, payload, pollVars, notifyVars>>

(* ------------------ process_task: result and payload ------------------ *)

\* lines 49-53: `not result or not isinstance(result, tuple)` gives nulls;
\* otherwise the tuple is unpacked into two names (ValueError unless it has
\* exactly two items)
Unpack_mut(res) ==
  IF ~res.truthy \/ res.type # "tuple"
    THEN [raises |-> "none", commit_sha |-> None, pages_url |-> None]
    ELSE IF Len(res.items) # 2
      THEN [raises |-> "ValueError", commit_sha |-> None, pages_url |-> None]
      ELSE [raises |-> "none", commit_sha |-> res.items[1], pages_url |-> None]
Unpack(res) ==
  IF ~res.truthy \/ res.type # "tuple"
    THEN [raises |-> "none", commit_sha |-> None, pages_url |-> None]
    ELSE IF Len(res.items) # 2
      THEN [raises |-> "ValueError", commit_sha |-> None, pages_url |-> None]
      ELSE [raises |-> "none", commit_sha |-> res.items[1],
            pages_url |-> res.items[2]]

\* (variant: the round is not taken from the request)
Payload_mut(req, u) ==
  [email |-> req.email, task |-> req.task, round |-> 1,
   nonce |-> req.nonce,
   repo_url |-> <<"https://github.com", NoneStr, RepoName(req.task)>>,
   commit_sha |-> u.commit_sha, pages_url |-> u.pages_url]

\* lines 56-64: req.get('GITHUB_OWNER') is None, no such key being in the request
Payload(req, u) ==
  [email |-> req.email, task |-> req.task, round |-> req.round,
   nonce |-> req.nonce,
   repo_url |-> <<"https://github.com", NoneStr, RepoName(req.task)>>,
   commit_sha |-> u.commit_sha, pages_url |-> u.pages_url]

build_payload ==
  /\ pc = "unpack"
  /\ LET u == Unpack(result)
     IN IF u.raises # "none"
          THEN Raise(u.raises) /\ UNCHANGED <<payload, stage>>
          ELSE /\ payload' = Payload(CurReq, u)
               /\ pc' = "notify"
               /\ stage' = "notify"
               /\ exc' = exc
  /\ UNCHANGED <<intakeVars, queueVars, logVars, cur, runVars, attVars, diskVars,
                 pubVars, pollVars, notifyVars>>

(* ------------------------- post_with_backoff -------------------------- *)

\* r.status_code == 200
IsSuccess_mut(out) == out \in {"200", "201"}
IsSuccess(out) == out = "200"

\* delay = min(delay * 2, 16)
Backoff_mut(d) == d * 2
Backoff(d) == Min(d * 2, DelayCap)

\* one iteration of the loop: POST; return on a 200; otherwise (another
\* status, or an exception, which is caught) sleep(delay) and double it
notify_post ==
  /\ pc = "notify"
  /\ posts < MaxAttempts
  /\ \E out \in {"200", "201", "ConnectError"} :
       /\ posts' = posts + 1
       /\ lastPost' = [url |-> CurReq.evaluation_url, body |-> payload]
       /\ lastResp' = IF out = "200" THEN "200" ELSE "other"
       /\ IF IsSuccess(out)
            THEN /\ acked' = TRUE
                 /\ pc' = "returned"
                 /\ UNCHANGED <<sleeps, delay>>
            ELSE /\ sleeps' = Append(sleeps, delay)
                 /\ delay' = Backoff(delay)
                 /\ UNCHANGED <<acked, pc>>
  /\ UNCHANGED <<intakeVars, queueVars, logVars, cur, runVars, attVars, excVars,
                 diskVars, pubVars, payload, pollVars>>

\* range(max_attempts) is used up: print "Failed to notify" and return
\* (variant: the attempts are counted afresh once they are used up)
notify_exhausted_mut ==
  /\ pc = "notify"
  /\ posts >= MaxAttempts
  /\ posts' = 1
  /\ sleeps' = <<>>
  /\ delay' = InitialDelay
  /\ UNCHANGED <<intakeVars, queueVars, logVars, pc, cur, runVars, attVars,
                 excVars, diskVars, pubVars, payload, pollVars, lastResp,
                 lastPost, acked>>

notify_exhausted ==
  /\ pc = "notify"
  /\ posts >= MaxAttempts
  /\ pc' = "returned"
  /\ UNCHANGED <<intakeVars, queueVars, logVars, cur, runVars, attVars, excVars,
                 diskVars, pubVars, payload, pollVars, notifyVars>>

(* ------------------- the two exception handlers ----------------------- *)

\* (variant: the handler reports the failure to the evaluation URL)
pt_except_mut ==
  /\ pc = "raised"
  /\ pc' = IF IsException(exc) THEN "returned" ELSE "propagating"
  /\ posts' = posts + 1
  /\ lastPost' = [url |-> CurReq.evaluation_url, body |-> payload]
  /\ UNCHANGED <<intakeVars, queueVars, logVars, cur, runVars, attVars, excVars,
                 diskVars, pubVars, payload, pollVars, sleeps, delay, lastResp,
                 acked>>

\* process_task, lines 70-71: except Exception: print; anything else goes on
\* to worker_loop
pt_except ==
  /\ pc = "raised"
  /\ pc' = IF IsException(exc) THEN "returned" ELSE "propagating"
  /\ UNCHANGED <<intakeVars, queueVars, logVars, cur, runVars, attVars, excVars,
                 diskVars, pubVars, payload, pollVars, notifyVars>>

\* how the run of the current request ended
Outcome == IF exc # "none" THEN "abandoned"
           ELSE IF acked THEN "acked" ELSE "exhausted"

\* (variant: a run that failed is put back on the queue)
worker_finally_mut ==
  /\ pc \in {"returned", "propagating"}
  /\ resolvedLog' = Append(resolvedLog, <<cur, Outcome, repo_name>>)
  /\ pc' = IF pc = "propagating" /\ ~IsException(exc) THEN "dead" ELSE "get"
  /\ cur' = 0
  /\ repo_name' = <<>>
  /\ calls' = NoCalls
  /\ lastPost' = NoPost
  /\ idx' = 1
  /\ files' = <<>>
  /\ fallback_img' = ""
  /\ stage' = "none"
  /\ exc' = "none"
  /\ repo_exists' = FALSE
  /\ result' = PyNone
  /\ payload' = NoPayload
  /\ polls' = 0
  /\ pollSlept' = 0
  /\ pollLive' = FALSE
  /\ posts' = 0
  /\ sleeps' = <<>>
  /\ delay' = InitialDelay
  /\ lastResp' = "none"
  /\ acked' = FALSE
  /\ queue' = IF exc # "none" THEN Append(queue, cur) ELSE queue
  /\ UNCHANGED <<intakeVars, enqLog, startLog, diskVars>>

\* worker_loop, lines 22-25: except Exception: print; finally: task_done();
\* the loop goes on, unless the exception is not an Exception
worker_finally ==
  /\ pc \in {"returned", "propagating"}
  /\ resolvedLog' = Append(resolvedLog, <<cur, Outcome, repo_name>>)
  /\ pc' = IF pc = "propagating" /\ ~IsException(exc) THEN "dead" ELSE "get"
  /\ cur' = 0
  /\ repo_name' = <<>>
  /\ calls' = NoCalls
  /\ lastPost' = NoPost
  /\ idx' = 1
  /\ files' = <<>>
  /\ fallback_img' = ""
  /\ stage' = "none"
  /\ exc' = "none"
  /\ repo_exists' = FALSE
  /\ result' = PyNone
  /\ payload' = NoPayload
  /\ polls' = 0
  /\ pollSlept' = 0
  /\ pollLive' = FALSE
  /\ posts' = 0
  /\ sleeps' = <<>>
  /\ delay' = InitialDelay
  /\ lastResp' = "none"
  /\ acked' = FALSE
  /\ UNCHANGED <<intakeVars, queueVars, startLog, diskVars>>

(* --------------------------- specification ---------------------------- *)

Intake == \E r \in Requests : receive_task(r)
Enqueue == \E id \in pending : queue_put(id)

Next ==
  \/ Intake
  \/ Enqueue
  \/ worker_get
  \/ decode_data_uri
  \/ fetch_attachment
  \/ attachments_done
  \/ generate_static_site
  \/ pub_repo_check
  \/ pub_create_repo
  \/ pub_git_push
  \/ pub_license
  \/ pub_readme
  \/ pub_enable_pages
  \/ pages_poll
  \/ pub_scan_return
  \/ build_payload
  \/ notify_post
  \/ notify_exhausted
  \/ pt_except
  \/ worker_finally

Spec == Init /\ [][Next]_vars

\* the steps of the worker task: everything but the arrival of requests and
\* the background put
WorkerStep ==
  \/ worker_get
  \/ decode_data_uri
  \/ fetch_attachment
  \/ attachments_done
  \/ generate_static_site
  \/ pub_repo_check
  \/ pub_create_repo
  \/ pub_git_push
  \/ pub_license
  \/ pub_readme
  \/ pub_enable_pages
  \/ pages_poll
  \/ pub_scan_return
  \/ build_payload
  \/ notify_post
  \/ notify_exhausted
  \/ pt_except
  \/ worker_finally

\* the event loop runs the worker task whenever it can take a step, and every
\* external call it awaits returns or raises
FairSpec == Spec /\ WF_vars(WorkerStep)

\* process_task with the publish step taken as a collaborator
NextStub ==
  \/ Intake
  \/ Enqueue
  \/ worker_get
  \/ decode_data_uri
  \/ fetch_attachment
  \/ attachments_done
  \/ generate_static_site
  \/ publish_stub
  \/ build_payload
  \/ notify_post
  \/ notify_exhausted
  \/ pt_except
  \/ worker_finally

SpecStub == Init /\ [][NextStub]_vars

(* ------------------------------ claims -------------------------------- *)

IsPrefix(a, b) == Len(a) <= Len(b) /\ a = SubSeq(b, 1, Len(a))
ResolvedIds == [k \in 1..Len(resolvedLog) |-> resolvedLog[k][1]]
\* the run of the current request got as far as the result of the publish step
PublishReturned == stage \in {"result", "notify"}
\* the notifier's run for the current request is over
NotifierReturned == pc = "returned" /\ stage = "notify"

\* C1: tasks are started in the order queue.put ran, and a task is started
\* only when every task started before it is resolved, so that at most one
\* task is in processing at any time
C1_FifoOneAtATime ==
  /\ IsPrefix(startLog, enqLog)
  /\ IsPrefix(ResolvedIds, startLog)
  /\ Len(startLog) - Len(resolvedLog) = (IF cur = 0 THEN 0 ELSE 1)
  /\ cur # 0 => cur = startLog[Len(startLog)]

\* two producers enqueued out of arrival order, the first enqueued is
\* resolved and the second is in processing
C1_Witness ==
  /\ enqLog = <<2, 1>>
  /\ ResolvedIds = <<2>>
  /\ cur = 1

\* C2: no exception leaves worker_loop (the worker never dies), and every
\* task put on the queue is either started or still waiting in the queue for
\* the live worker, whatever happened to the tasks before it
C2_QueueDrain ==
  /\ pc \notin {"dead", "propagating"}
  /\ enqLog = startLog \o queue
  /\ (pc = "get" /\ queue # <<>>) => ENABLED worker_get

\* a task was abandoned on an exception and the task queued after it is in
\* processing
C2_Witness ==
  /\ Len(resolvedLog) = 1
  /\ resolvedLog[1][2] = "abandoned"
  /\ cur # 0
  /\ stage = "notify"

\* C3 (as claimed): when the publish step raises, the run still ends with the
\* notifier called on a payload with null commit_sha and pages_url
C3_PublishRaiseStillNotifies ==
  (pc = "returned" /\ stage = "publish" /\ exc # "none")
    => (posts >= 1 /\ payload.commit_sha = None /\ payload.pages_url = None
        /\ payload.nonce = CurReq.nonce)

\* C4: a falsy or non-tuple result of the publish step gives a payload with
\* null commit_sha and pages_url, a pair gives a payload with the pair's two
\* values, and in both cases the notifier is called
C4_ResultToPayload ==
  (PublishReturned /\ pc \in {"notify", "returned"}) =>
    /\ (~result.truthy \/ result.type # "tuple")
         => /\ payload.commit_sha = None /\ payload.pages_url = None
            /\ stage = "notify"
            /\ pc = "returned" => posts >= 1
    /\ (result.type = "tuple" /\ Len(result.items) = 2)
         => /\ payload.commit_sha = result.items[1]
            /\ payload.pages_url = result.items[2]
            /\ stage = "notify"
            /\ pc = "returned" => posts >= 1

\* the publish step returned an empty tuple and the notifier has run
C4_Witness ==
  /\ NotifierReturned
  /\ result = PyTuple(<<>>)
  /\ posts >= 1
  /\ payload.commit_sha = None

\* C5 (as claimed): generate_static_site never raises, for any brief and
\* round, and after a failed generation call index.html is the fallback
C5_GenerationNeverRaises ==
  /\ ~(stage = "generation" /\ exc # "none")
  /\ (stage = "publish" /\ pc = "pub_check")
       => folder[CurRepo].html \in {"valid", "fallback"}

\* the delay between attempt k and attempt k + 1 of the notifier
ExpectedDelay(k) == Min(2 ^ (k - 1), 16)

\* C6: when every POST fails the notifier makes exactly max_attempts POSTs,
\* waits 1, 2, 4, 8, 16, 16, ... between consecutive attempts and returns
\* without raising
C6_NotifierExhaustion ==
  /\ stage = "notify" =>
       /\ Len(sleeps) >= posts - 1
       /\ \A k \in 1..(posts - 1) : sleeps[k] = ExpectedDelay(k)
  /\ (NotifierReturned /\ ~acked) =>
       /\ posts = MaxAttempts
       /\ lastResp # "200"
       /\ exc = "none"

\* every POST failed and the notifier has returned
C6_Witness ==
  /\ NotifierReturned
  /\ ~acked
  /\ posts = MaxAttempts
  /\ sleeps[MaxAttempts - 1] = 16

\* C7: a POST answered 200 ends the notifier at once (no POST follows it in
\* the run), and a POST answered anything else, or failing in transport, is
\* not a success: the notifier stays in its loop for the next attempt
C7_NotifierSuccess ==
  [][ /\ (acked /\ cur' = cur) => posts' = posts
      /\ posts' = posts + 1 =>
           /\ posts < MaxAttempts
           /\ lastResp' = "200" => (acked' /\ pc' = "returned")
           /\ lastResp' # "200" => (~acked' /\ pc' = "notify") ]_vars

\* the third POST was the first answered 200
C7_Witness ==
  /\ NotifierReturned
  /\ acked
  /\ posts = 3
  /\ Len(sleeps) = 2

\* C8 (as claimed): no failure to resolve an attachment aborts the task: the
\* run always gets past decode_attachments
C8_AttachmentFailureSkipped ==
  ~(stage = "attachments" /\ exc # "none")

\* C9: the k-th poll is made after 10 * k time units of sleep and only while
\* no poll was answered 200, at most 12 polls are made, and a poll answered
\* 200 ends the loop
C9_PollerEarlyStop ==
  [][ /\ polls' = polls + 1 =>
           /\ ~pollLive
           /\ polls < PollAttempts
           /\ pollSlept = SettleDelay + polls * PollInterval
      /\ (polls' = polls + 1 /\ pollLive') =>
           (pc' = "pub_scan" /\ pollSlept' = pollSlept) ]_vars

\* the fifth poll was the first answered 200 and the loop is over
C9_Witness ==
  /\ pc = "pub_scan"
  /\ pollLive
  /\ polls = 5
  /\ pollSlept = 50

\* C10: whether or not a poll was answered 200, the publish step returns the
\* pair whose second item is the pages URL of the repository, and that URL is
\* in the payload handed to the notifier
C10_LivenessAdvisory ==
  /\ (pc = "pub_scan" /\ ~pollLive) => (polls = PollAttempts /\ exc = "none")
  /\ PublishReturned =>
       /\ result.type = "tuple"
       /\ Len(result.items) = 2
       /\ result.items[2] = PagesUrl(CurRepo)
       /\ exc = "none"
  /\ stage = "notify" => payload.pages_url = PagesUrl(CurRepo)

\* all twelve polls failed and the payload with the pages URL was POSTed
C10_Witness ==
  /\ stage = "notify"
  /\ ~pollLive
  /\ posts >= 1
  /\ payload.pages_url = PagesUrl(CurRepo)

NoDuplicates(q) == \A a, b \in 1..Len(q) : q[a] = q[b] => a = b
Accepted == {id \in 1..Len(intake) : intake[id].status = 200}

\* C11: a request is put on the queue at most once, started at most once and
\* resolved at most once (no run is repeated, whatever its outcome), a run
\* calls attachment resolution, generation and publish at most once each, and
\* makes at most 20 notification POSTs
C11_OneRunPerRequest ==
  /\ NoDuplicates(enqLog)
  /\ NoDuplicates(startLog)
  /\ NoDuplicates(ResolvedIds)
  /\ \A k \in 1..Len(enqLog) : enqLog[k] \in Accepted
  /\ \A k \in 1..Len(queue) : \A n \in 1..Len(startLog) : queue[k] # startLog[n]
  /\ calls.decode <= 1 /\ calls.generate <= 1 /\ calls.publish <= 1
  /\ posts <= MaxAttempts

\* a run was abandoned, its request is resolved and is not queued again, and
\* the next request notified 20 times
C11_Witness ==
  /\ Len(resolvedLog) = 1
  /\ resolvedLog[1][2] = "abandoned"
  /\ posts = MaxAttempts
  /\ calls = [decode |-> 1, generate |-> 1, publish |-> 1]
  /\ queue = <<>>

\* C12 (as claimed): the repo_url of the payload names the configured
\* GitHub owner and the repository the publish step pushed to
C12_RepoUrlFromPublishTarget ==
  stage = "notify" =>
    payload.repo_url = <<"https://github.com", GITHUB_OWNER, repo_name>>

\* C13: every POST made in a run goes to the evaluation_url of the request in
\* processing and carries that request's email, task, round and nonce
C13_PostCarriesOwnFields ==
  posts >= 1 =>
    /\ lastPost.url = intake[cur].req.evaluation_url
    /\ lastPost.body.email = intake[cur].req.email
    /\ lastPost.body.task = intake[cur].req.task
    /\ lastPost.body.round = intake[cur].req.round
    /\ lastPost.body.nonce = intake[cur].req.nonce
    /\ lastPost.body = payload

\* the second request is being notified, after a first one with other
\* correlation fields
C13_Witness ==
  /\ Len(resolvedLog) = 1
  /\ posts >= 2
  /\ intake[cur].req.nonce # intake[resolvedLog[1][1]].req.nonce
  /\ intake[cur].req.round = 2
  /\ lastPost.body.nonce = intake[cur].req.nonce

InQueueOrder(id) == \E k \in 1..Len(enqLog) : enqLog[k] = id

\* C14: a request is accepted exactly when its secret is right, whatever the
\* worker is doing and however long the queue is; an accepted request's
\* queue.put can always run (the queue has no capacity bound), and once run
\* the request is on the queue's order
C14_EnqueueNeverBlocks ==
  /\ \A id \in 1..Len(intake) :
       (intake[id].status = 200) <=> (intake[id].req.secret = STUDENT_SECRET)
  /\ \A id \in Accepted : id \in pending \/ InQueueOrder(id)
  /\ \A id \in pending : ENABLED queue_put(id)
  /\ Len(intake) < MaxRequests => \A r \in Requests : ENABLED receive_task(r)

\* a second request was accepted and its put is due while the worker is in
\* the middle of the first one's notification
C14_Witness ==
  /\ pc = "notify"
  /\ posts >= 1
  /\ Len(intake) = 2
  /\ pending # {}

\* name is task with every space turned into a hyphen and every upper-case
\* letter into its lower-case one
IsNameOf(name, task) ==
  /\ Len(name) = Len(task)
  /\ \A k \in 1..Len(task) :
       /\ task[k] = " " => name[k] = "-"
       /\ task[k] = "A" => name[k] = "a"
       /\ task[k] = "B" => name[k] = "b"
       /\ task[k] \notin {" ", "A", "B"} => name[k] = task[k]

\* C15: the repository and folder name of every run is its request's task,
\* lower-cased with hyphens for spaces, so that runs of requests with the same
\* task, whatever their round, nonce, brief and attachments, use the same name
C15_RepoNameFromTask ==
  /\ cur # 0 => IsNameOf(repo_name, intake[cur].req.task)
  /\ \A k \in 1..Len(resolvedLog) :
       /\ IsNameOf(resolvedLog[k][3], intake[resolvedLog[k][1]].req.task)
       /\ (cur # 0 /\ intake[resolvedLog[k][1]].req.task = intake[cur].req.task)
            => resolvedLog[k][3] = repo_name
  /\ stage = "notify" => payload.repo_url[3] = repo_name

\* a round 2 request with another nonce, brief and attachments runs in the
\* folder that the round 1 request of the same task left behind
C15_Witness ==
  /\ Len(resolvedLog) = 1
  /\ cur # 0
  /\ intake[cur].req.round = 2
  /\ intake[resolvedLog[1][1]].req.round = 1
  /\ intake[resolvedLog[1][1]].req.task = intake[cur].req.task
  /\ intake[resolvedLog[1][1]].req.nonce # intake[cur].req.nonce
  /\ repo_name = resolvedLog[1][3]
  /\ pc = "generate"
  /\ folder[repo_name].html # "absent"

\* C16 (as claimed): the notifier waits min(2^(k-2), 16) before attempt k >= 2
\* and nothing before attempt 1, and every wait is followed by a POST: when
\* the notifier has returned it has waited once less than it has POSTed
C16_DelayOnlyBeforeRetry ==
  /\ stage = "notify" =>
       \A k \in 2..posts : sleeps[k - 1] = Min(2 ^ (k - 2), 16)
  /\ (stage = "notify" /\ posts = 0) => sleeps = <<>>
  /\ NotifierReturned => Len(sleeps) = posts - 1

\* C17 (as claimed): once the publish step has returned, README.md exists and
\* is not empty: it is the README the folder had when README generation failed
C17_ReadmeUpToDate ==
  PublishReturned =>
    /\ ~ReadmeIsEmpty(folder[repo_name].readme)
    /\ folder[repo_name].readme = git[repo_name].tree.readme

\* C18 (as claimed): the commit the publish step returns is the one pushed to
\* the remote main branch and holds the folder as it is when publish returns
C18_CommitHoldsFolder ==
  PublishReturned =>
    /\ result.items[1] = Sha(repo_name, git[repo_name].commits)
    /\ git[repo_name].pushed = git[repo_name].commits
    /\ git[repo_name].tree = folder[repo_name]

\* the order of the stages of one run
StageOrder ==
  { <<"none", "attachments">>, <<"attachments", "generation">>,
    <<"generation", "publish">>, <<"publish", "result">>,
    <<"result", "notify">> }

\* C19: a run goes through attachment resolution, generation, publish and
\* notification in this order, a POST is made only in the notification stage
\* (after the publish step has returned and the payload is built), and a run
\* abandoned on an exception has made no POST
C19_StagesInOrder ==
  [][ /\ stage' # stage => (<<stage, stage'>> \in StageOrder \/ stage' = "none")
      /\ posts' >= 1 =>
           /\ stage' = "notify"
           /\ calls' = [decode |-> 1, generate |-> 1, publish |-> 1]
           /\ lastPost'.body = Payload(intake[cur'].req, Unpack(result'))
      /\ exc' # "none" => posts' = 0 ]_vars

\* the publish step raised, the run was abandoned and no POST was made
C19_Witness ==
  /\ pc = "returned"
  /\ stage = "publish"
  /\ exc = "GitCommandError"
  /\ posts = 0

\* C20: under fairness of the worker every task put on the queue is
\* eventually taken by the worker and resolved, every run that has started
\* ends, and within a run the poller makes at most 12 polls and the notifier
\* at most 20 POSTs
C20_EveryTaskResolved ==
  /\ \A id \in 1..MaxRequests :
       InQueueOrder(id) ~> (\E k \in 1..Len(resolvedLog) : resolvedLog[k][1] = id)
  /\ \A id \in 1..MaxRequests : (cur = id) ~> (cur # id)
  /\ [](polls <= PollAttempts /\ posts <= MaxAttempts)

\* two tasks were resolved one after the other, the first after the notifier
\* used up its twenty attempts, and the worker waits on the empty queue
C20_Witness ==
  /\ Len(resolvedLog) = 2
  /\ resolvedLog[1][2] = "exhausted"
  /\ queue = <<>>
  /\ pc = "get"
  /\ cur = 0

\* C21: in every run the poller makes at most 12 polls and the time it has
\* slept, the settle delay and the waits after failed polls together, never
\* exceeds 130 time units; it is 130 exactly when all twelve polls failed
C21_PollerBound ==
  /\ polls <= 12
  /\ pollSlept <= 130
  /\ pc \in {"poll", "pub_scan"} =>
       /\ pollSlept >= SettleDelay
       /\ pollSlept <= SettleDelay + polls * PollInterval
  /\ (pc = "pub_scan" /\ ~pollLive) => (polls = 12 /\ pollSlept = 130)

\* the poller of a round 2 run has made its twelve polls, none answered 200,
\* and has slept 130 time units
C21_Witness ==
  /\ pc = "pub_scan"
  /\ polls = 12
  /\ ~pollLive
  /\ pollSlept = 130
  /\ intake[cur].req.round = 2

====
